---- MODULE Spec2Model ----
(***************************************************************************)
(* PipelineBuilder (fedot/core/pipelines/pipeline_builder.py): incremental *)
(* construction of pipelines over a heap of Node objects.                  *)
(*                                                                         *)
(* A Node is a heap cell [op, nodes_from]; object identity is the cell's   *)
(* address, so sharing and aliasing are visible.  A builder is an object   *)
(* holding the list `heads` of node addresses.  Cells no object refers to  *)
(* any more disappear from the heap (reference counting).                  *)
(***************************************************************************)
EXTENDS Integers, Sequences, FiniteSets, TLC

\* ---------------------------------------------------------------- bounds
MaxNodes == 3        \* nodes in the graph of a builder
MaxInput == 2        \* nodes in the graph of the first builder passed to merge_with
MaxOther == 3        \* nodes in the graph of the second builder passed to merge_with
MaxMerged == 5       \* nodes in the graph of a builder returned by merge_with
MaxShared == 2       \* nodes in the graph of a builder whose results the caller keeps
MaxOps == 2          \* operations passed to one variadic call
MaxIdx == 2          \* branch_idx ranges over -MaxIdx..MaxIdx
MaxHeld == 1         \* results of to_nodes()/to_pipeline() the caller holds
MaxLater == 1        \* calls the caller makes after its first merge_with
MaxMutLen == 1       \* length of a parent list the caller assigns
ArenaSize == 16      \* addresses in one allocation arena
MaxGraph == 5        \* nodes the caller creates to compare their descriptive ids
MaxParents == 2      \* length of the parent list of a node the caller creates
MaxChain == 3        \* nodes the caller creates to build a Chain it fits
MaxLong == 4         \* nodes the caller creates to build a Chain it measures
MaxGiven == 2        \* nodes the caller creates to construct a builder on
MaxInitial == 2      \* nodes passed to the constructor
MaxBuilt == 3        \* nodes of a builder constructed on given nodes, those included

\* ---------------------------------------------------------------- values
None == "None"
EmptyOp == ""
Ops == {"a", "b"}
OpArgs == Ops \cup {None, EmptyOp}
BranchIdxs == (0 - MaxIdx)..MaxIdx
Builders == {1, 2, 3}

\* `not operation_type`: None and the empty string are both falsy
Falsy(op) == op \in {None, EmptyOp}

\* the argument lists of a variadic call, over the operations A
OpSeqs(A) == UNION {[1..n -> A] : n \in 0..MaxOps}

VARIABLES heap, heads, outs, m, call, ret, chain, cache, out
vars == <<heap, heads, outs, m, call, ret, chain, cache, out>>

\* the state of a Chain, of the caches of its nodes and the last output: the
\* builder has no part in them
chainvars == <<chain, cache, out>>

\* ---------------------------------------------------------------- helpers
Range(s) == {s[i] : i \in DOMAIN s}

Min(S) == CHOOSE x \in S : \A y \in S : x <= y

First(a) == (a - 1) * ArenaSize + 1

\* Addresses come from arenas: arena b serves the objects created for
\* builder b, the next one temporaries, and the arenas after it the results
\* handed to the caller.  Which address an object gets is immaterial.
ArenaIds(a) == First(a)..(a * ArenaSize)
Scratch == Cardinality(Builders) + 1
ResultArenas == {Scratch + j : j \in 1..(MaxHeld + 1)}

\* address of the next object allocated in arena a
NewId(h, a) ==
    CHOOSE n \in ArenaIds(a) : n \notin DOMAIN h /\ \A j \in First(a)..(n - 1) : j \in DOMAIN h

PrimaryNode(op) == [op |-> op, nodes_from |-> <<>>]
SecondaryNode(op, parents) == [op |-> op, nodes_from |-> parents]

Alloc(h, n, cell) == (n :> cell) @@ h

ParentsOf(h, S) == UNION {Range(h[n].nodes_from) : n \in S}

RECURSIVE Closure(_, _)
Closure(h, S) ==
    LET T == S \cup ParentsOf(h, S)
    IN  IF T = S THEN S ELSE Closure(h, T)

\* every node reachable from a list of nodes through nodes_from
Reach(h, roots) == Closure(h, Range(roots))

Restrict(h, S) == [n \in S |-> h[n]]

\* list.insert(i, x) with a 0-based, possibly negative, clamped index
PyInsert(s, i, x) ==
    LET j == IF i < 0 THEN i + Len(s) ELSE i
        k == IF j < 0 THEN 0 ELSE IF j > Len(s) THEN Len(s) ELSE j
    IN  SubSeq(s, 1, k) \o <<x>> \o SubSeq(s, k + 1, Len(s))

\* list[i] / list.pop(i): the 1-based position of index i, 0 when IndexError
PyPos(s, i) ==
    IF i >= 0 THEN (IF i < Len(s) THEN i + 1 ELSE 0)
    ELSE (IF i + Len(s) >= 0 THEN i + Len(s) + 1 ELSE 0)

RemoveAt(s, p) == SubSeq(s, 1, p - 1) \o SubSeq(s, p + 1, Len(s))

\* ------------------------------------------------------- builder methods
\* A method body runs on s = [heap, heads, arena, raised, path]: the heap,
\* the heads of the builder it is called on, the arena its objects come
\* from, whether an exception has propagated, and the branches it took.
Frame(b) == [heap |-> heap, heads |-> heads[b], arena |-> b, raised |-> FALSE, path |-> {}]

Took(s, branch) == [s EXCEPT !.path = s.path \cup {branch}]

\* a faulty replacement that leaves the old head among the heads
ReplaceHeadBeside(s, op, idx) ==
    LET p == PyPos(s.heads, idx)
        n == NewId(s.heap, s.arena)
    IN  IF p = 0 THEN [Took(s, "raise") EXCEPT !.raised = TRUE]
        ELSE [Took(s, "replace") EXCEPT
                 !.heap = Alloc(s.heap, n, SecondaryNode(op, <<s.heads[p]>>)),
                 !.heads = Append(s.heads, n)]

\* a faulty replacement whose new node is given itself as input
ReplaceHeadSelf(s, op, idx) ==
    LET p == PyPos(s.heads, idx)
        n == NewId(s.heap, s.arena)
    IN  IF p = 0 THEN [Took(s, "raise") EXCEPT !.raised = TRUE]
        ELSE [Took(s, "replace") EXCEPT
                 !.heap = Alloc(s.heap, n, SecondaryNode(op, <<n>>)),
                 !.heads = [s.heads EXCEPT ![p] = n]]

\* self.heads[branch_idx] = SecondaryNode(operation_type, nodes_from=[input_node])
ReplaceHead(s, op, idx) ==
    LET p == PyPos(s.heads, idx)
        n == NewId(s.heap, s.arena)
    IN  IF p = 0 THEN [Took(s, "raise") EXCEPT !.raised = TRUE]
        ELSE [Took(s, "replace") EXCEPT
                 !.heap = Alloc(s.heap, n, SecondaryNode(op, <<s.heads[p]>>)),
                 !.heads = [s.heads EXCEPT ![p] = n]]

\* self.heads.append(PrimaryNode(operation_type))
AppendHead(s, op) ==
    LET n == NewId(s.heap, s.arena)
    IN  [Took(s, "append") EXCEPT
            !.heap = Alloc(s.heap, n, PrimaryNode(op)),
            !.heads = Append(s.heads, n)]

AddNode(s, op, idx) ==
    IF Falsy(op) THEN Took(s, "skip")
    ELSE IF idx < Len(s.heads) THEN ReplaceHead(s, op, idx)
    ELSE AppendHead(s, op)

RECURSIVE AddSequence(_, _, _)
AddSequence(s, ops, idx) ==
    IF ops = <<>> \/ s.raised THEN s
    ELSE AddSequence(AddNode(s, Head(ops), idx), Tail(ops), idx)

RECURSIVE GrowFrom(_, _, _)
GrowFrom(s, ops, i) ==
    IF ops = <<>> \/ s.raised THEN s
    ELSE GrowFrom(AddNode(s, Head(ops), i), Tail(ops), i + 1)

\* a faulty grow_branches that passes index 0 for every operation
GrowBranchesFirst(s, ops) == AddSequence(s, ops, 0)

\* for i, operation in enumerate(operation_type): self.add_node(operation, i)
GrowBranches(s, ops) == GrowFrom(s, ops, 0)

\* list(filter(None, operation_type))
FilterOps(ops) == SelectSeq(ops, LAMBDA o : ~Falsy(o))

\* (a variant for comparison: the new branches are not built on the head they
\* replace)
RECURSIVE InsertBranchesDetached(_, _, _, _, _)
InsertBranchesDetached(s, ops, idx, i, input) ==
    IF ops = <<>> THEN s
    ELSE LET n == NewId(s.heap, s.arena)
             t == [s EXCEPT !.heap = Alloc(s.heap, n, PrimaryNode(Head(ops))),
                            !.heads = PyInsert(s.heads, idx + i, n)]
         IN  InsertBranchesDetached(t, Tail(ops), idx, i + 1, input)

RECURSIVE InsertBranches(_, _, _, _, _)
InsertBranches(s, ops, idx, i, input) ==
    IF ops = <<>> THEN s
    ELSE LET n == NewId(s.heap, s.arena)
             t == [s EXCEPT !.heap = Alloc(s.heap, n, SecondaryNode(Head(ops), <<input>>)),
                            !.heads = PyInsert(s.heads, idx + i, n)]
         IN  InsertBranches(t, Tail(ops), idx, i + 1, input)

RECURSIVE AppendBranches(_, _)
AppendBranches(s, ops) ==
    IF ops = <<>> \/ s.raised THEN s
    ELSE AppendBranches(AddNode(s, Head(ops), Len(s.heads)), Tail(ops))

AddBranch(s, ops, idx) ==
    LET operations == FilterOps(ops)
    IN  IF operations = <<>> THEN Took(s, "skip")
        ELSE IF idx < Len(s.heads) THEN
            LET p == PyPos(s.heads, idx)
            IN  IF p = 0 THEN [Took(s, "raise") EXCEPT !.raised = TRUE]
                ELSE InsertBranches([Took(s, "branch") EXCEPT !.heads = RemoveAt(s.heads, p)],
                                    operations, idx, 0, s.heads[p])
        ELSE AppendBranches(s, operations)

\* a faulty join_branches that leaves a single head alone
JoinBranchesSeveral(s, op) ==
    IF Len(s.heads) > 1 /\ ~Falsy(op) THEN
        LET n == NewId(s.heap, s.arena)
        IN  [Took(s, "join") EXCEPT
                !.heap = Alloc(s.heap, n, SecondaryNode(op, s.heads)),
                !.heads = <<n>>]
    ELSE Took(s, "skip")

\* if self.heads and operation_type: self.heads = [SecondaryNode(.., nodes_from=self.heads)]
JoinBranches(s, op) ==
    IF s.heads # <<>> /\ ~Falsy(op) THEN
        LET n == NewId(s.heap, s.arena)
        IN  [Took(s, "join") EXCEPT
                !.heap = Alloc(s.heap, n, SecondaryNode(op, s.heads)),
                !.heads = <<n>>]
    ELSE Took(s, "skip")

Reset(s) == [Took(s, "reset") EXCEPT !.heads = <<>>]

\* ------------------------------------------------------------- deep copy
\* the elements of S in ascending order
RECURSIVE Ascending(_)
Ascending(S) ==
    IF S = {} THEN <<>>
    ELSE LET x == Min(S) IN <<x>> \o Ascending(S \ {x})

\* the k lowest unused addresses of arena a from address n on, ascending
RECURSIVE FreshFrom(_, _, _)
FreshFrom(h, n, k) ==
    IF k = 0 THEN <<>>
    ELSE IF n \in DOMAIN h THEN FreshFrom(h, n + 1, k)
    ELSE <<n>> \o FreshFrom(h, n + 1, k - 1)

FreshIds(h, a, k) == FreshFrom(h, First(a), k)

\* copy.deepcopy(nodes): one new object per reachable object (memoised, so
\* a node shared by several parents lists is copied once)
DeepCopy(h, nodes, a) ==
    LET rs == Ascending(Reach(h, nodes))
        fs == FreshIds(h, a, Len(rs))
        to == [r \in Range(rs) |-> fs[CHOOSE i \in DOMAIN rs : rs[i] = r]]
        copies == [f \in Range(fs) |->
                     LET r == rs[CHOOSE i \in DOMAIN fs : fs[i] = f]
                     IN  [op |-> h[r].op,
                          nodes_from |-> [i \in DOMAIN h[r].nodes_from |-> to[h[r].nodes_from[i]]]]]
    IN  [heap |-> copies @@ h,
         nodes |-> [i \in DOMAIN nodes |-> to[nodes[i]]]]

\* a faulty to_nodes that copies head by head, [deepcopy(h) for h in heads]
RECURSIVE CopyEachFrom(_, _, _, _)
CopyEachFrom(h, todo, a, done) ==
    IF todo = <<>> THEN [heap |-> h, nodes |-> done]
    ELSE LET c == DeepCopy(h, <<Head(todo)>>, a)
         IN  CopyEachFrom(c.heap, Tail(todo), a, done \o c.nodes)

CopyEachHead(h, hd, a) == CopyEachFrom(h, hd, a, <<>>)

\* a faulty to_nodes that returns self.heads
HeadsThemselves(h, hd, a) == [heap |-> h, nodes |-> hd]

\* return deepcopy(self.heads)
ToNodes(h, hd, a) == DeepCopy(h, hd, a)

\* Graph.add_node: a node, then its parents, each once
RECURSIVE GraphAdd(_, _, _)
RECURSIVE GraphAddAll(_, _, _)
GraphAdd(h, nodes, n) ==
    IF n \in Range(nodes) THEN nodes
    ELSE GraphAddAll(h, Append(nodes, n), h[n].nodes_from)
GraphAddAll(h, nodes, ps) ==
    IF ps = <<>> THEN nodes
    ELSE GraphAddAll(h, GraphAdd(h, nodes, Head(ps)), Tail(ps))

\* Graph(nodes) / Pipeline(nodes): owns deep copies of the supplied nodes and
\* of everything reachable from them; .nodes lists them all
NewGraph(h, supplied, a) ==
    LET c == DeepCopy(h, supplied, a)
    IN  [heap |-> c.heap, nodes |-> GraphAddAll(c.heap, <<>>, c.nodes)]

\* return Pipeline(self.to_nodes()) if self.heads else None
ToPipeline(h, hd, a) ==
    IF hd # <<>> THEN
        LET t == ToNodes(h, hd, Scratch)
            g == NewGraph(t.heap, t.nodes, a)
        IN  [heap |-> g.heap, kind |-> "pipeline", nodes |-> g.nodes]
    ELSE [heap |-> h, kind |-> "none", nodes |-> <<>>]

\* ------------------------------------------------------------------ merge
\* Graph.update_node(old, new): new takes the place of old in the graph and
\* in every parents list old appeared in, at the same position
UpdateNode(g, old, cell, a) ==
    LET n == NewId(g.heap, a)
        sub(s) == [i \in DOMAIN s |-> IF s[i] = old THEN n ELSE s[i]]
        h1 == Alloc(g.heap, n, cell)
    IN  [heap |-> [x \in DOMAIN h1 |->
                     IF x \in Range(g.nodes) \ {old}
                     THEN [h1[x] EXCEPT !.nodes_from = sub(h1[x].nodes_from)]
                     ELSE h1[x]],
         nodes |-> sub(g.nodes)]

\* GraphOperator(graph).root_node(): the nodes no node of the graph has as parent
RootNodes(g) ==
    SelectSeq(g.nodes, LAMBDA n : \A x \in Range(g.nodes) : n \notin Range(g.heap[x].nodes_from))

\* a faulty loop that rewires the first initial node only
RewireFirst(g, initial, final, a) ==
    IF initial = <<>> THEN g
    ELSE UpdateNode(g, Head(initial), SecondaryNode(g.heap[Head(initial)].op, <<final>>), a)

\* for initial_node in rhs_nodes_initial: update_node(initial_node, SecondaryNode(.., [final_node]))
RECURSIVE RewireAll(_, _, _, _)
RewireAll(g, initial, final, a) ==
    IF initial = <<>> THEN g
    ELSE RewireAll(UpdateNode(g, Head(initial),
                              SecondaryNode(g.heap[Head(initial)].op, <<final>>), a),
                   Tail(initial), final, a)

\* the builder merge_with creates: slot New of the builders
New == Cardinality(Builders)

\* return PipelineBuilder(*merged_graph.root_nodes()), on the heap of the graph
MergedBuilder(g, path) ==
    [kind |-> "builder", b |-> New, path |-> path, heap |-> g.heap, heads |-> RootNodes(g)]

\* len(lhs_nodes_final) == 1: every initial node gets the final node as parent
OneToMany(g, rhs_nodes_initial, lhs_nodes_final, a) ==
    MergedBuilder(RewireAll(g, rhs_nodes_initial, lhs_nodes_final[1], a), "one_to_many")

\* a faulty many-to-one that passes the first final node only
ManyToOneFirst(g, rhs_nodes_initial, lhs_nodes_final, a) ==
    MergedBuilder(UpdateNode(g, rhs_nodes_initial[1],
                             SecondaryNode(g.heap[rhs_nodes_initial[1]].op,
                                           <<lhs_nodes_final[1]>>), a),
                  "many_to_one")

\* len(rhs_nodes_initial) == 1: the initial node gets all final nodes as parents
ManyToOne(g, rhs_nodes_initial, lhs_nodes_final, a) ==
    MergedBuilder(UpdateNode(g, rhs_nodes_initial[1],
                             SecondaryNode(g.heap[rhs_nodes_initial[1]].op, lhs_nodes_final), a),
                  "many_to_one")

\* a faulty test of the topology: `>= 1` where the code has `== 1`
ConnectAtLeastOne(h, lhs_nodes_final, rhs_tmp_graph, a) ==
    LET rhs_nodes_initial == SelectSeq(rhs_tmp_graph.nodes,
                                       LAMBDA n : rhs_tmp_graph.heap[n].nodes_from = <<>>)
    IN  IF Len(lhs_nodes_final) >= 1 THEN
            OneToMany(rhs_tmp_graph, rhs_nodes_initial, lhs_nodes_final, a)
        ELSE IF Len(rhs_nodes_initial) = 1 THEN
            ManyToOne(rhs_tmp_graph, rhs_nodes_initial, lhs_nodes_final, a)
        ELSE [kind |-> "absent", b |-> 0, path |-> "many_to_many", heap |-> h, heads |-> <<>>]

\* the three topologies, on the copied final nodes of previous and the
\* temporary graph of following
Connect(h, lhs_nodes_final, rhs_tmp_graph, a) ==
    LET rhs_nodes_initial == SelectSeq(rhs_tmp_graph.nodes,
                                       LAMBDA n : rhs_tmp_graph.heap[n].nodes_from = <<>>)
    IN  IF Len(lhs_nodes_final) = 1 THEN
            OneToMany(rhs_tmp_graph, rhs_nodes_initial, lhs_nodes_final, a)
        ELSE IF Len(rhs_nodes_initial) = 1 THEN
            ManyToOne(rhs_tmp_graph, rhs_nodes_initial, lhs_nodes_final, a)
        ELSE [kind |-> "absent", b |-> 0, path |-> "many_to_many", heap |-> h, heads |-> <<>>]

\* rhs_tmp_graph = Graph(following.to_nodes())
WithCopies(h, lhs, following, a) ==
    LET rhs == ToNodes(lhs.heap, following, Scratch)
    IN  Connect(h, lhs.nodes, NewGraph(rhs.heap, rhs.nodes, a), a)

\* a faulty merge that takes previous.heads where the code takes previous.to_nodes()
MergeOnHeads(h, hs, p, f, a) ==
    IF hs[f] = <<>> THEN
        [kind |-> "builder", b |-> p, path |-> "previous", heap |-> h, heads |-> hs[p]]
    ELSE IF hs[p] = <<>> THEN
        [kind |-> "builder", b |-> f, path |-> "following", heap |-> h, heads |-> hs[f]]
    ELSE WithCopies(h, [heap |-> h, nodes |-> hs[p]], hs[f], a)

\* merge_pipeline_builders(previous, following) for builders p and f: what it
\* returns (a builder b, or nothing), the branch taken, the heap after it and
\* the heads of the builder returned
merge_pipeline_builders(h, hs, p, f, a) ==
    IF hs[f] = <<>> THEN
        [kind |-> "builder", b |-> p, path |-> "previous", heap |-> h, heads |-> hs[p]]
    ELSE IF hs[p] = <<>> THEN
        [kind |-> "builder", b |-> f, path |-> "following", heap |-> h, heads |-> hs[f]]
    ELSE WithCopies(h, ToNodes(h, hs[p], a), hs[f], a)

\* ------------------------------------------------------------ the program
\* objects something still refers to: builders' heads and held results
Live(hs, os) ==
    UNION {Range(hs[b]) : b \in Builders} \cup UNION {Range(os[i].nodes) : i \in DOMAIN os}

Collect(h, hs, os) == Restrict(h, Closure(h, Live(hs, os)))

NoArgs == [ops |-> <<>>, idx |-> 0]
NoCall == [name |-> "init", b |-> 0, args |-> NoArgs, path |-> {}, again |-> FALSE]
Unset == [kind |-> "unset", b |-> 0, p |-> 0, f |-> 0, later |-> 0]
NoValue == [kind |-> "none", b |-> 0]
NoOut == [kind |-> "none", node |-> 0, value |-> <<>>]

Init ==
    /\ heap = <<>>
    /\ heads = [b \in Builders |-> <<>>]
    /\ outs = <<>>
    /\ m = Unset
    /\ call = NoCall
    /\ ret = NoValue
    /\ chain = <<>>
    /\ cache = <<>>
    /\ out = NoOut

\* one more call made after the first merge_with
Later(mm) == IF mm.kind = "unset" THEN mm ELSE [mm EXCEPT !.later = @ + 1]

\* live objects that were created for builder b
Population(h, b) == Cardinality(DOMAIN h \cap ArenaIds(b))

\* the call returns (or raises) with frame s; unreferenced objects vanish
\* (only reset lets go of nodes: every other method keeps the old heads as
\* parents of the new ones)
Return(b, s, value, name, args, k) ==
    /\ k.keep \/ outs = <<>>
    /\ heads' = [heads EXCEPT ![b] = s.heads]
    /\ heap' = IF name = "reset" THEN Collect(s.heap, heads', outs) ELSE s.heap
    /\ Population(heap', b) <= k.bound[b]
    /\ ret' = IF s.raised THEN [kind |-> "raise", b |-> 0] ELSE value
    /\ call' = [name |-> name, b |-> b, args |-> IF k.args THEN args ELSE NoArgs,
                path |-> s.path, again |-> FALSE]
    /\ m' = Later(m)
    /\ UNCHANGED <<outs, chainvars>>

Self(b) == [kind |-> "self", b |-> b]

AddNodeCall(b, op, idx, k) ==
    Return(b, AddNode(Frame(b), op, idx), Self(b), "add_node", [ops |-> <<op>>, idx |-> idx], k)

AddSequenceCall(b, ops, idx, k) ==
    Return(b, AddSequence(Frame(b), ops, idx), Self(b), "add_sequence",
           [ops |-> ops, idx |-> idx], k)

GrowBranchesCall(b, ops, k) ==
    Return(b, GrowBranches(Frame(b), ops), Self(b), "grow_branches", [ops |-> ops, idx |-> 0], k)

AddBranchCall(b, ops, idx, k) ==
    Return(b, AddBranch(Frame(b), ops, idx), Self(b), "add_branch", [ops |-> ops, idx |-> idx], k)

JoinBranchesCall(b, op, k) ==
    Return(b, JoinBranches(Frame(b), op), Self(b), "join_branches", [ops |-> <<op>>, idx |-> 0], k)

\* reset has no return statement: the call evaluates to None
ResetCall(b, k) ==
    Return(b, Reset(Frame(b)), NoValue, "reset", NoArgs, k)

\* A scenario k says which builders the caller drives (bs), how large each
\* builder's graph may grow (bound), which operations and indices it passes
\* (opargs, idxs), whether it keeps earlier results while it goes on
\* building (keep), and whether `call` records the arguments (args).
add_node(k) ==
    \E b \in k.bs, op \in k.opargs, idx \in k.idxs : AddNodeCall(b, op, idx, k)

add_sequence(k) ==
    \E b \in k.bs, ops \in OpSeqs(k.opargs), idx \in k.idxs :
        AddSequenceCall(b, ops, idx, k)

grow_branches(k) ==
    \E b \in k.bs, ops \in OpSeqs(k.opargs) : GrowBranchesCall(b, ops, k)

add_branch(k) ==
    \E b \in k.bs, ops \in OpSeqs(k.opargs), idx \in k.idxs :
        AddBranchCall(b, ops, idx, k)

join_branches(k) ==
    \E b \in k.bs, op \in k.opargs : JoinBranchesCall(b, op, k)

reset(k) ==
    \E b \in k.bs : ResetCall(b, k)

IsRead(c) == c.name \in {"to_nodes", "to_pipeline"}

\* the caller keeps the result, letting go of the oldest one it held
Kept(os) == IF Len(os) < MaxHeld THEN os ELSE Tail(os)

\* the arena the next result is allocated in
ResultArena(os) ==
    Min({a \in ResultArenas : \A i \in DOMAIN Kept(os) : Kept(os)[i].arena # a})

Read(b, r, name) ==
    /\ outs' = Append(Kept(outs), [kind |-> r.kind, nodes |-> r.nodes, arena |-> ResultArena(outs)])
    /\ heap' = Collect(r.heap, heads, outs')
    /\ ret' = [kind |-> r.kind, b |-> 0]
    /\ call' = [name |-> name, b |-> b, args |-> NoArgs, path |-> {},
                again |-> (IsRead(call) /\ call.b = b)]
    /\ UNCHANGED <<heads, m, chainvars>>

ToNodesCall(b) ==
    LET t == ToNodes(heap, heads[b], ResultArena(outs))
    IN  Read(b, [heap |-> t.heap, kind |-> "nodes", nodes |-> t.nodes], "to_nodes")

ToPipelineCall(b) ==
    Read(b, ToPipeline(heap, heads[b], ResultArena(outs)), "to_pipeline")

to_nodes(k) == \E b \in k.bs : ToNodesCall(b)

to_pipeline(k) == \E b \in k.bs : ToPipelineCall(b)

\* the nodes of the i-th result the caller holds
Held(i) == Reach(heap, outs[i].nodes)

\* the caller assigns node.nodes_from of a node it was given
CallerSets(n, ps) ==
    /\ heap' = Collect([heap EXCEPT ![n].nodes_from = ps], heads, outs)
    /\ call' = [name |-> "nodes_from", b |-> 0, args |-> NoArgs, path |-> {}, again |-> FALSE]
    /\ ret' = NoValue
    /\ UNCHANGED <<heads, outs, m, chainvars>>

\* ... to a list of nodes of the same result
caller_sets_nodes_from ==
    \E i \in DOMAIN outs :
        \E n \in Held(i), ps \in UNION {[1..j -> Held(i)] : j \in 0..MaxMutLen} :
            CallerSets(n, ps)

\* the caller lets go of the results it holds
release ==
    /\ outs # <<>>
    /\ outs' = <<>>
    /\ heap' = Collect(heap, heads, outs')
    /\ call' = [name |-> "release", b |-> 0, args |-> NoArgs, path |-> {}, again |-> FALSE]
    /\ ret' = NoValue
    /\ UNCHANGED <<heads, m, chainvars>>

\* the builder the caller got from the last merge_with, if it got one
Merged == IF m.kind = "builder" THEN {m.b} ELSE {}

\* m = previous.merge_with(following) returned v; a builder nothing refers
\* to any more is gone
MergeReturns(p, f, v, k) ==
    /\ m' = [kind |-> v.kind, b |-> v.b, p |-> p, f |-> f, later |-> Later(m).later]
    /\ heads' = [b \in Builders |->
                    IF b = New THEN (IF v.b = New THEN v.heads ELSE <<>>) ELSE heads[b]]
    /\ heap' = Collect(v.heap, heads', outs)
    /\ ret' = IF v.kind = "absent" THEN NoValue ELSE [kind |-> "builder", b |-> v.b]
    /\ call' = [name |-> "merge_with", b |-> p, args |-> NoArgs, path |-> {v.path},
                again |-> FALSE]
    /\ UNCHANGED <<outs, chainvars>>

MergeWithCall(p, f, k) ==
    /\ k.keep \/ outs = <<>>
    /\ Cardinality(Reach(heap, heads[p])) + Cardinality(Reach(heap, heads[f])) <= k.bound[New]
    /\ MergeReturns(p, f, merge_pipeline_builders(heap, heads, p, f, New), k)

merge_with(k) == \E p \in k.ms, f \in k.ms : MergeWithCall(p, f, k)

\* One builder, driven from empty by every operation.
Building == [bs |-> {1}, bound |-> [b \in Builders |-> MaxNodes], opargs |-> OpArgs,
             idxs |-> BranchIdxs, keep |-> TRUE, args |-> TRUE]

Next ==
    \/ add_node(Building)
    \/ add_sequence(Building)
    \/ grow_branches(Building)
    \/ add_branch(Building)
    \/ join_branches(Building)
    \/ reset(Building)

Spec == Init /\ [][Next]_vars

\* One builder that is read between operations; the caller lets go of the
\* results before it goes on building.  (Calls without an operation or with a
\* negative branch_idx lead to no builder state the others do not lead to.)
Reading == [bs |-> {1}, bound |-> [b \in Builders |-> MaxNodes], opargs |-> Ops,
            idxs |-> 0..MaxIdx, keep |-> FALSE, args |-> FALSE]

NextRead ==
    \/ add_node(Reading)
    \/ add_sequence(Reading)
    \/ grow_branches(Reading)
    \/ add_branch(Reading)
    \/ join_branches(Reading)
    \/ reset(Reading)
    \/ to_nodes(Reading)
    \/ to_pipeline(Reading)
    \/ release

SpecRead == Init /\ [][NextRead]_vars

\* One builder whose results the caller keeps and modifies while building.
Sharing == [bs |-> {1}, bound |-> [b \in Builders |-> MaxShared], opargs |-> {"a"},
            idxs |-> 0..MaxIdx, keep |-> TRUE, args |-> FALSE]

NextShare ==
    \/ add_node(Sharing)
    \/ add_sequence(Sharing)
    \/ grow_branches(Sharing)
    \/ add_branch(Sharing)
    \/ join_branches(Sharing)
    \/ reset(Sharing)
    \/ to_nodes(Sharing)
    \/ to_pipeline(Sharing)
    \/ caller_sets_nodes_from

SpecShare == Init /\ [][NextShare]_vars

\* Two builders are built, then merged (with each other or with themselves);
\* the caller goes on with the builder it got back, for at most MaxLater calls.
Merging == [bs |-> IF m.kind = "unset" THEN {1, 2}
                   ELSE IF m.later < MaxLater THEN Merged ELSE {},
            ms |-> IF m.kind = "unset" THEN {1, 2} ELSE {},
            bound |-> [b \in Builders |-> IF b = New THEN MaxMerged
                                          ELSE IF b = 1 THEN MaxInput ELSE MaxOther],
            opargs |-> Ops, idxs |-> 0..MaxIdx, keep |-> TRUE, args |-> FALSE]

NextMerge ==
    \/ add_node(Merging)
    \/ add_sequence(Merging)
    \/ grow_branches(Merging)
    \/ add_branch(Merging)
    \/ join_branches(Merging)
    \/ reset(Merging)
    \/ merge_with(Merging)

SpecMerge == Init /\ [][NextMerge]_vars

\* ----------------------------------------------------------- descriptive id
\* Strings are sequences of characters; Code orders the characters as Python
\* orders them.
Code == ("(" :> 40) @@ (")" :> 41) @@ ("/" :> 47) @@ (";" :> 59) @@ ("_" :> 95)
        @@ ("a" :> 97) @@ ("b" :> 98) @@ ("n" :> 110)

\* s < t for strings
RECURSIVE Before(_, _)
Before(s, t) ==
    IF t = <<>> THEN FALSE
    ELSE IF s = <<>> THEN TRUE
    ELSE IF Head(s) = Head(t) THEN Before(Tail(s), Tail(t))
    ELSE Code[Head(s)] < Code[Head(t)]

\* item put in its place in the sorted list items
RECURSIVE Placed(_, _)
Placed(item, items) ==
    IF items = <<>> THEN <<item>>
    ELSE IF Before(item, Head(items)) THEN <<item>> \o items
    ELSE <<Head(items)>> \o Placed(item, Tail(items))

\* the strings items sorted lexicographically
RECURSIVE Sorted(_)
Sorted(items) ==
    IF items = <<>> THEN <<>> ELSE Placed(Head(items), Sorted(Tail(items)))

\* ';'.join(items)
RECURSIVE Joined(_)
Joined(items) ==
    IF items = <<>> THEN <<>>
    ELSE IF Len(items) = 1 THEN items[1]
    ELSE items[1] \o <<";">> \o Joined(Tail(items))

\* '/n_' + operation token (the parameters' part, the same '_default_params'
\* for every node here, is left out)
Token(op) == <<"/", "n", "_", op>>

\* a faulty descriptive id that takes the parents in the order of nodes_from
RECURSIVE DeclaredOrderId(_, _)
DeclaredOrderId(h, n) ==
    IF h[n].nodes_from = <<>> THEN Token(h[n].op)
    ELSE <<"(">>
         \o Joined([i \in DOMAIN h[n].nodes_from |->
                       DeclaredOrderId(h, h[n].nodes_from[i]) \o <<";">>])
         \o <<")">> \o Token(h[n].op)

\* node.descriptive_id: the operation token, after the bracketed, sorted ids of
\* the parents, each followed by ';' and joined by ';'
RECURSIVE descriptive_id(_, _)
descriptive_id(h, n) ==
    IF h[n].nodes_from = <<>> THEN Token(h[n].op)
    ELSE <<"(">>
         \o Joined(Sorted([i \in DOMAIN h[n].nodes_from |->
                              descriptive_id(h, h[n].nodes_from[i]) \o <<";">>]))
         \o <<")">> \o Token(h[n].op)

\* ----------------------------------------------------- nodes of the caller
\* the lists of up to k distinct nodes among S
NodeLists(S, k) ==
    UNION {{ps \in [1..j -> S] : \A x, y \in 1..j : ps[x] = ps[y] => x = y} : j \in 1..k}

\* the caller has created node n (or changed it); `out` is what the last call
\* on a node or on the chain returned
Made(h, name, n) ==
    /\ heap' = h
    /\ call' = [name |-> name, b |-> 0, args |-> NoArgs, path |-> {}, again |-> FALSE]
    /\ ret' = [kind |-> "node", b |-> n]
    /\ out' = NoOut
    /\ UNCHANGED <<heads, outs, m, chain, cache>>

\* NodeGenerator.primary_node(model); the nodes are created before the chain
\* is built
primary_node(bound) ==
    /\ Cardinality(DOMAIN heap) < bound
    /\ chain = <<>>
    /\ \E op \in Ops :
           Made(Alloc(heap, NewId(heap, 1), PrimaryNode(op)), "primary_node", NewId(heap, 1))

\* NodeGenerator.secondary_node(model, nodes_from=[..])
secondary_node(bound) ==
    /\ Cardinality(DOMAIN heap) < bound
    /\ chain = <<>>
    /\ \E op \in Ops, ps \in NodeLists(DOMAIN heap, MaxParents) :
           Made(Alloc(heap, NewId(heap, 1), SecondaryNode(op, ps)), "secondary_node",
                NewId(heap, 1))

\* the caller reads node.descriptive_id
ReadsId(n, id) ==
    /\ out' = [kind |-> "id", node |-> n, value |-> id]
    /\ call' = [name |-> "descriptive_id", b |-> 0, args |-> NoArgs, path |-> {},
                again |-> FALSE]
    /\ ret' = NoValue
    /\ UNCHANGED <<heap, heads, outs, m, chain, cache>>

reads_descriptive_id == \E n \in DOMAIN heap : ReadsId(n, descriptive_id(heap, n))

\* Nodes are created, on nodes created before, and their ids are read.
NextId ==
    \/ primary_node(MaxGraph)
    \/ secondary_node(MaxGraph)
    \/ reads_descriptive_id

SpecId == Init /\ [][NextId]_vars

\* ------------------------------------------------------------------ chain
\* the data the tests fit on and predict on
Train == "train"
Test == "test"

\* The cache of a node is the set of its entries [id, state]; a node without
\* entries has no place in `cache`.
CacheOf(c, n) == IF n \in DOMAIN c THEN c[n] ELSE {}

\* cache.get(id)
Get(entries, id) == {e \in entries : e.id = id}

\* a faulty put that keeps the entries of other ids
PutBeside(entries, id, state) == entries \cup {[id |-> id, state |-> state]}

\* cache.put(id, state): the node holds this state and no other
Put(entries, id, state) == {[id |-> id, state |-> state]}

\* what the operation capability returns: the fitted state of an operation
\* on its inputs, and the output of a fitted state on inputs
OperationFit(op, inputs) == [op |-> op, on |-> inputs]
OperationPredict(state, inputs) == [by |-> state, of |-> inputs]

\* node n put in its place among the nodes ns sorted by descriptive id
RECURSIVE PlacedById(_, _, _)
PlacedById(h, n, ns) ==
    IF ns = <<>> THEN <<n>>
    ELSE IF Before(descriptive_id(h, n), descriptive_id(h, Head(ns))) THEN <<n>> \o ns
    ELSE <<Head(ns)>> \o PlacedById(h, n, Tail(ns))

\* a faulty order of the inputs: that of nodes_from
DeclaredOrder(h, ps) == ps

\* the parents in the order their outputs are handed to the operation: the
\* order of their descriptive ids, whatever the order of nodes_from
RECURSIVE InOrder(_, _)
InOrder(h, ps) ==
    IF ps = <<>> THEN <<>> ELSE PlacedById(h, Head(ps), InOrder(h, Tail(ps)))

\* One visit of the graph, e = [heap, cache, data, use_cache, fitting]: the
\* fitted state node x works with, the inputs it is given and its output.
\* In fit the state is the cached one when use_cache and the cache has an
\* entry of the node's id, and a newly fitted one otherwise; in predict it
\* is the cached one.
RECURSIVE StateAt(_, _)
RECURSIVE InputsAt(_, _)
RECURSIVE OutputAt(_, _)
Hit(e, x) == Get(CacheOf(e.cache, x), descriptive_id(e.heap, x))

StateAt(e, x) ==
    IF (e.fitting => e.use_cache) /\ Hit(e, x) # {} THEN (CHOOSE c \in Hit(e, x) : TRUE).state
    ELSE OperationFit(e.heap[x].op, InputsAt(e, x))

InputsAt(e, x) ==
    IF e.heap[x].nodes_from = <<>> THEN <<e.data>>
    ELSE [i \in DOMAIN e.heap[x].nodes_from |->
             OutputAt(e, InOrder(e.heap, e.heap[x].nodes_from)[i])]

OutputAt(e, x) == OperationPredict(StateAt(e, x), InputsAt(e, x))

\* a faulty fit that stores nothing when it is told not to use the cache
EntriesKeptUnlessUsed(e, x) ==
    IF e.use_cache /\ Hit(e, x) = {}
    THEN Put(CacheOf(e.cache, x), descriptive_id(e.heap, x), StateAt(e, x))
    ELSE CacheOf(e.cache, x)

\* the entries of node x after fit has visited it: as they were when the
\* cached state was used, the newly fitted state under the node's id otherwise
EntriesAfter(e, x) ==
    IF e.use_cache /\ Hit(e, x) # {} THEN CacheOf(e.cache, x)
    ELSE Put(CacheOf(e.cache, x), descriptive_id(e.heap, x), StateAt(e, x))

\* a visit of the graph h with the caches c
Visit(h, c, data, use_cache, fitting) ==
    [heap |-> h, cache |-> c, data |-> data, use_cache |-> use_cache, fitting |-> fitting]

\* the caches after fit has visited the nodes S
CachesAfter(e, S) ==
    LET held == {x \in DOMAIN e.cache \cup S : x \in S \/ e.cache[x] # {}}
    IN  [x \in held |-> IF x \in S THEN EntriesAfter(e, x) ELSE e.cache[x]]

\* Chain.root_node, when the chain has one
Root(h, nodes) == RootNodes([heap |-> h, nodes |-> nodes])[1]

HasRoot(h, nodes) == Len(RootNodes([heap |-> h, nodes |-> nodes])) = 1

\* the call on the chain returns value; kind tells what was called, path
\* how and after what
Returns(kind, n, value, c, path) ==
    /\ out' = [kind |-> kind, node |-> n, value |-> value]
    /\ cache' = c
    /\ call' = [name |-> kind, b |-> 0, args |-> NoArgs, path |-> path, again |-> FALSE]
    /\ ret' = NoValue
    /\ UNCHANGED <<heap, heads, outs, m, chain>>

\* chain.add_node(node): the chain refers to the caller's node, and to its
\* ancestors; the caller adds nodes before it fits
chain_add_node ==
    /\ cache = <<>>
    /\ \E n \in DOMAIN heap \ Range(chain) :
           /\ chain' = GraphAdd(heap, chain, n)
           /\ call' = [name |-> "chain_add_node", b |-> 0, args |-> NoArgs, path |-> {},
                       again |-> FALSE]
           /\ ret' = NoValue
           /\ out' = NoOut
           /\ UNCHANGED <<heap, heads, outs, m, cache>>

\* chain.fit(input_data=train, use_cache=..) in the environment e
Fit(e, r) ==
    Returns("fit", r, OutputAt(e, r), CachesAfter(e, Closure(e.heap, {r})),
            (IF e.use_cache THEN {"use_cache"} ELSE {})
                \cup (IF call.name = "cache_clear" THEN call.path ELSE {}))

fit ==
    /\ chain # <<>> /\ HasRoot(heap, chain)
    /\ \E use_cache \in BOOLEAN :
           Fit(Visit(heap, cache, Train, use_cache, TRUE), Root(heap, chain))

\* every node under r has a fitted state of its id
Fitted(h, c, r) ==
    \A x \in Closure(h, {r}) : Get(CacheOf(c, x), descriptive_id(h, x)) # {}

\* chain.predict(test), of a fitted chain
predict ==
    /\ chain # <<>> /\ HasRoot(heap, chain)
    /\ Fitted(heap, cache, Root(heap, chain))
    /\ Returns("predict", Root(heap, chain),
               OutputAt(Visit(heap, cache, Test, TRUE, FALSE), Root(heap, chain)), cache, {})

\* node.cache.clear(); the call record tells when it follows an assignment
\* to nodes_from of the same node
cache_clear ==
    \E n \in DOMAIN cache :
        /\ cache' = [x \in DOMAIN cache \ {n} |-> cache[x]]
        /\ call' = [name |-> "cache_clear", b |-> 0, args |-> NoArgs,
                    path |-> IF call.name = "nodes_from" /\ ret.b = n THEN call.path ELSE {},
                    again |-> FALSE]
        /\ ret' = [kind |-> "node", b |-> n]
        /\ out' = NoOut
        /\ UNCHANGED <<heap, heads, outs, m, chain>>

\* the nodes that have n among their ancestors, n included
Descendants(h, n) == {x \in DOMAIN h : n \in Closure(h, {x})}

\* chain.nodes[i].nodes_from = [..]: nodes of the chain, in any order, that
\* leave node n a derived node of an acyclic graph
SetsNodesFrom(n, ps) ==
    /\ heap' = [heap EXCEPT ![n].nodes_from = ps]
    /\ call' = [name |-> "nodes_from", b |-> 0, args |-> NoArgs,
                path |-> IF Len(ps) = Len(heap[n].nodes_from) /\ Range(ps) = Range(heap[n].nodes_from)
                         THEN {"reordered"} ELSE {"changed"},
                again |-> FALSE]
    /\ ret' = [kind |-> "node", b |-> n]
    /\ out' = NoOut
    /\ UNCHANGED <<heads, outs, m, chain, cache>>

sets_nodes_from ==
    \E n \in Range(chain) :
        /\ heap[n].nodes_from # <<>>
        /\ \E ps \in NodeLists(Range(chain) \ Descendants(heap, n), MaxParents) :
               ps # heap[n].nodes_from /\ SetsNodesFrom(n, ps)

\* chain.length and chain.depth
Length(nodes) == Len(nodes)

\* a faulty depth that follows the first parent only
RECURSIVE DepthFirst(_, _)
DepthFirst(h, n) ==
    IF h[n].nodes_from = <<>> THEN 1 ELSE 1 + DepthFirst(h, h[n].nodes_from[1])

Max(S) == CHOOSE x \in S : \A y \in S : x >= y

RECURSIVE Depth(_, _)
Depth(h, n) ==
    IF h[n].nodes_from = <<>> THEN 1
    ELSE 1 + Max({Depth(h, h[n].nodes_from[i]) : i \in DOMAIN h[n].nodes_from})

reads_metrics ==
    /\ chain # <<>> /\ HasRoot(heap, chain)
    /\ Returns("metrics", Root(heap, chain),
               [length |-> Length(chain), depth |-> Depth(heap, Root(heap, chain))], cache, {})

\* Nodes are created, a chain is made of them and fitted; then the caller
\* predicts, changes parents, clears caches and fits again.
NextChain ==
    \/ primary_node(MaxChain)
    \/ secondary_node(MaxChain)
    \/ chain_add_node
    \/ fit
    \/ predict
    \/ cache_clear
    \/ sets_nodes_from

SpecChain == Init /\ [][NextChain]_vars

\* Nodes are created, a chain is made of them and measured.
NextMetrics ==
    \/ primary_node(MaxLong)
    \/ secondary_node(MaxLong)
    \/ chain_add_node
    \/ reads_metrics

SpecMetrics == Init /\ [][NextMetrics]_vars

\* ------------------------------------------- a builder on the caller's nodes
\* a None among the nodes given to the constructor (no node has address 0)
NoNode == 0

\* PipelineBuilder(*initial_nodes): the heads are the nodes given, without the
\* None ones
PipelineBuilderInit(initial_nodes) == SelectSeq(initial_nodes, LAMBDA n : n # NoNode)

\* the argument lists of the constructor, over the nodes S
InitialNodes(S) == UNION {[1..j -> S \cup {NoNode}] : j \in 0..MaxInitial}

\* the caller has not constructed the builder yet
Creating == call.name \in {"init", "primary_node", "secondary_node"}

given_primary_node == Creating /\ primary_node(MaxGiven)

given_secondary_node == Creating /\ secondary_node(MaxGiven)

\* builder 1 is constructed on nodes of the caller, who keeps all its nodes
Construct(initial_nodes) ==
    /\ Creating
    /\ heads' = [heads EXCEPT ![1] = PipelineBuilderInit(initial_nodes)]
    /\ outs' = <<[kind |-> "nodes", nodes |-> Ascending(DOMAIN heap), arena |-> 1]>>
    /\ call' = [name |-> "PipelineBuilder", b |-> 1, args |-> NoArgs, path |-> {},
                again |-> FALSE]
    /\ ret' = [kind |-> "builder", b |-> 1]
    /\ UNCHANGED <<heap, m, chainvars>>

construct == \E initial_nodes \in InitialNodes(DOMAIN heap) : Construct(initial_nodes)

\* The caller creates nodes, constructs a builder on some of them and drives it
\* by every operation.
Given == [bs |-> IF Creating THEN {} ELSE {1}, bound |-> [b \in Builders |-> MaxBuilt],
          opargs |-> OpArgs, idxs |-> BranchIdxs, keep |-> TRUE, args |-> FALSE]

NextGiven ==
    \/ given_primary_node
    \/ given_secondary_node
    \/ construct
    \/ add_node(Given)
    \/ add_sequence(Given)
    \/ grow_branches(Given)
    \/ add_branch(Given)
    \/ join_branches(Given)
    \/ reset(Given)

SpecGiven == Init /\ [][NextGiven]_vars

\* ------------------------------------------------------------- properties
BuildingCalls == {"add_node", "add_sequence", "grow_branches", "add_branch", "join_branches"}

\* C1: no call of add_node, add_sequence, grow_branches, add_branch or
\* join_branches ends in an error, whatever the state of the builder, the
\* operations and the branch_idx it is given.
C1_NoCallRaises == call.name \in BuildingCalls => ret.kind # "raise"

\* C2: add_node(op, branch_idx) with an operation: when branch_idx is one of
\* the head indices 0..len(heads)-1 the head there is replaced by a new node
\* with operation op whose only parent is the old head, the other heads and
\* their number staying as they were; when heads is empty or branch_idx is any
\* other integer one new parentless node with operation op is appended as the
\* last head, the existing heads staying as they were.  Without an operation
\* the heads are unchanged.
C2_AddNode ==
    [][call'.name = "add_node" =>
        LET op == call'.args.ops[1]
            idx == call'.args.idx
            old == heads[call'.b]
            new == heads'[call'.b]
        IN  IF Falsy(op) THEN new = old
            ELSE IF idx \in 0..(Len(old) - 1) THEN
                /\ Len(new) = Len(old)
                /\ \A i \in DOMAIN old : i # idx + 1 => new[i] = old[i]
                /\ new[idx + 1] \notin DOMAIN heap
                /\ heap'[new[idx + 1]] = [op |-> op, nodes_from |-> <<old[idx + 1]>>]
            ELSE
                /\ Len(new) = Len(old) + 1
                /\ SubSeq(new, 1, Len(old)) = old
                /\ new[Len(new)] \notin DOMAIN heap
                /\ heap'[new[Len(new)]] = [op |-> op, nodes_from |-> <<>>]]_vars

\* C10: every call of add_node, add_sequence, grow_branches, add_branch,
\* join_branches and reset that returns, returns the builder it was called
\* on; reset leaves heads empty.
C10_ReturnsSelf ==
    [][(call'.name \in BuildingCalls \cup {"reset"} /\ ret'.kind # "raise") =>
        /\ ret' = Self(call'.b)
        /\ call'.name = "reset" => heads'[call'.b] = <<>>]_vars

\* ---------------------------------------------------- properties of merge
\* builder b (its heads and every node reachable from them) is what it was
Same(b) ==
    /\ heads'[b] = heads[b]
    /\ \A n \in Reach(heap, heads[b]) : n \in DOMAIN heap' /\ heap'[n] = heap[n]

\* the parentless nodes among S
Initial(h, S) == {n \in S : h[n].nodes_from = <<>>}

\* the nodes of S that no node of S has as a parent
Roots(h, S) == {n \in S : \A x \in S : n \notin Range(h[x].nodes_from)}

Pos(s, x) == CHOOSE i \in DOMAIN s : s[i] = x

\* The graph under a list of nodes with the addresses abstracted away: its
\* nodes numbered in depth-first order from the list.  Two lists have the same
\* shape exactly when their graphs have the same operations and parent lists
\* and share nodes in the same places.
Shape(h, roots) ==
    LET order == GraphAddAll(h, <<>>, roots)
    IN  [roots |-> [i \in DOMAIN roots |-> Pos(order, roots[i])],
         cells |-> [i \in DOMAIN order |->
                      [op |-> h[order[i]].op,
                       nodes_from |-> [j \in DOMAIN h[order[i]].nodes_from |->
                                         Pos(order, h[order[i]].nodes_from[j])]]]]

Injections(A, B) == {g \in [A -> B] : \A x, y \in A : g[x] = g[y] => x = y}

\* g maps the parents list of n to the parents list of g[n]
KeepsParents(g, n) ==
    heap'[g[n]].nodes_from = [i \in DOMAIN heap[n].nodes_from |-> g[heap[n].nodes_from[i]]]

\* the step is previous.merge_with(following) for builders p and f
IsMerge(p, f) == call'.name = "merge_with" /\ m'.p = p /\ m'.f = f

\* C3: merge_with returns nothing exactly when both builders are non-empty,
\* previous has two or more heads and the graph of following has two or more
\* parentless nodes; otherwise it returns a builder, and when one of the
\* builders is empty that builder has the heads of the other one.
C3_AbsentIffManyToMany ==
    [][\A p, f \in Builders : IsMerge(p, f) =>
        LET many == /\ Len(heads[p]) >= 2
                    /\ Cardinality(Initial(heap, Reach(heap, heads[f]))) >= 2
        IN  /\ ret'.kind = (IF many THEN "none" ELSE "builder")
            /\ m'.kind = (IF many THEN "absent" ELSE "builder")
            /\ heads[f] = <<>> => heads'[ret'.b] = heads[p]
            /\ heads[p] = <<>> => heads'[ret'.b] = heads[f]]_vars

\* a merge returned nothing
C3_Witness == call.name = "merge_with" /\ m.kind = "absent" /\ m.p # m.f

\* C4: when previous has exactly one head and following is non-empty, the
\* merged graph holds a copy of following in which every node keeps its
\* operation, every parentless node has got exactly one parent, the same node
\* for all of them and the copy of the head of previous (with its ancestors),
\* and every other node keeps its parents; the heads of the merged builder
\* are the roots of the combined graph.
C4_OneToMany ==
    [][\A p, f \in Builders : (IsMerge(p, f) /\ Len(heads[p]) = 1 /\ heads[f] # <<>>) =>
        /\ ret'.kind = "builder"
        /\ LET RF == Reach(heap, heads[f])
               H == heads'[ret'.b]
               G == Reach(heap', H)
           IN  /\ \E c \in G : \E g \in Injections(RF, G) :
                      /\ Shape(heap', <<c>>) = Shape(heap, heads[p])
                      /\ \A n \in RF :
                             /\ heap'[g[n]].op = heap[n].op
                             /\ IF heap[n].nodes_from = <<>> THEN heap'[g[n]].nodes_from = <<c>>
                                ELSE KeepsParents(g, n)
                      /\ G = {g[n] : n \in RF} \cup Reach(heap', <<c>>)
                      /\ {g[n] : n \in RF} \cap Reach(heap', <<c>>) = {}
               /\ Range(H) = Roots(heap', G)
               /\ Cardinality(Range(H)) = Len(H)]_vars

\* one head was merged with a graph of two parentless nodes and a node joining them
C4_Witness ==
    /\ call.name = "merge_with" /\ m.kind = "builder" /\ m.p # m.f
    /\ Len(heads[m.p]) = 1
    /\ Cardinality(Initial(heap, Reach(heap, heads[m.f]))) >= 2
    /\ \E n \in Reach(heap, heads[m.f]) : heap[n].nodes_from # <<>>

\* C5: when previous has two or more heads and the graph of following has
\* exactly one parentless node, the merged graph holds a copy of following in
\* which that node keeps its operation and has as parents the copies of the
\* heads of previous, in the order of previous.heads, and every other node
\* keeps its operation and its parents.
C5_ManyToOne ==
    [][\A p, f \in Builders :
        (/\ IsMerge(p, f)
         /\ Len(heads[p]) >= 2
         /\ Cardinality(Initial(heap, Reach(heap, heads[f]))) = 1) =>
        /\ ret'.kind = "builder"
        /\ LET RF == Reach(heap, heads[f])
               G == Reach(heap', heads'[ret'.b])
           IN  \E g \in Injections(RF, G) :
                  LET copies == UNION {Reach(heap', heap'[g[n]].nodes_from) : n \in Initial(heap, RF)}
                  IN  /\ \A n \in RF :
                             /\ heap'[g[n]].op = heap[n].op
                             /\ IF heap[n].nodes_from = <<>>
                                THEN Shape(heap', heap'[g[n]].nodes_from) = Shape(heap, heads[p])
                                ELSE KeepsParents(g, n)
                      /\ G = {g[n] : n \in RF} \cup copies
                      /\ {g[n] : n \in RF} \cap copies = {}]_vars

\* two heads with a common parent were merged with a chain
C5_Witness ==
    /\ call.name = "merge_with" /\ m.kind = "builder" /\ m.p # m.f
    /\ Len(heads[m.p]) >= 2
    /\ \E x \in DOMAIN heap : \A i \in DOMAIN heads[m.p] : heap[heads[m.p][i]].nodes_from = <<x>>
    /\ Cardinality(Initial(heap, Reach(heap, heads[m.f]))) = 1
    /\ Cardinality(Reach(heap, heads[m.f])) >= 2

\* C6: merge_with leaves the heads of previous and of following, and every
\* node reachable from them, as they were, and so does every later operation
\* on the builder it returned, whichever builders were merged (one of them
\* empty or not, a builder with itself or not).
C6_InputsNeverChange ==
    [][/\ \A p, f \in Builders : IsMerge(p, f) => Same(p) /\ Same(f)
       /\ (m.kind = "builder" /\ call'.name \in BuildingCalls \cup {"reset"} /\ call'.b = m.b) =>
              Same(m.p) /\ Same(m.f)]_vars

\* C6, as the code has it: merge_with leaves previous and following as they
\* were.  When one of them is empty it returns the other builder itself;
\* when both are non-empty the builder it returns is made of new nodes only,
\* and every later operation on that builder leaves previous and following
\* as they were.
C6_InputsKept ==
    [][/\ \A p, f \in Builders : IsMerge(p, f) =>
              /\ Same(p) /\ Same(f)
              /\ heads[f] = <<>> => ret' = [kind |-> "builder", b |-> p]
              /\ (heads[p] = <<>> /\ heads[f] # <<>>) => ret' = [kind |-> "builder", b |-> f]
              /\ (heads[p] # <<>> /\ heads[f] # <<>> /\ ret'.kind = "builder") =>
                     /\ ret'.b \notin {p, f}
                     /\ Reach(heap', heads'[ret'.b]) \cap DOMAIN heap = {}
       /\ (/\ m.kind = "builder" /\ m.b \notin {m.p, m.f}
           /\ call'.name \in BuildingCalls \cup {"reset"} /\ call'.b = m.b) =>
              Same(m.p) /\ Same(m.f)]_vars

\* the new builder a merge returned has had a head replaced
C6_Witness ==
    /\ m.kind = "builder" /\ m.b \notin {m.p, m.f} /\ m.later = 1
    /\ call.name = "add_node" /\ call.b = m.b /\ "replace" \in call.path

\* the nodes linked to the nodes S, as parents or as children, within G
RECURSIVE Component(_, _, _)
Component(h, G, S) ==
    LET T == S \cup ParentsOf(h, S) \cup {x \in G : Range(h[x].nodes_from) \cap S # {}}
    IN  IF T = S THEN S ELSE Component(h, G, T)

Connected(h, G) == G = {} \/ Component(h, G, {CHOOSE n \in G : TRUE}) = G

\* C7: for every non-empty builder b, b.merge_with(b) returns a builder,
\* whose graph is connected and has twice as many nodes as the graph of b,
\* and leaves b as it was.
C7_SelfMerge ==
    [][\A b \in Builders : (IsMerge(b, b) /\ heads[b] # <<>>) =>
        /\ ret'.kind = "builder"
        /\ LET G == Reach(heap', heads'[ret'.b])
           IN  /\ Cardinality(G) = 2 * Cardinality(Reach(heap, heads[b]))
               /\ Connected(heap', G)
        /\ Same(b)]_vars

\* ------------------------------------------ properties of to_nodes/to_pipeline
\* the result the caller got last
Last(os) == os[Len(os)]

C9_Isolation ==
    [][/\ IsRead(call') => Reach(heap', Last(outs').nodes) \cap DOMAIN heap = {}
       /\ \A i \in DOMAIN outs', b \in Builders :
              Reach(heap', outs'[i].nodes) \cap Reach(heap', heads'[b]) = {}
       /\ call'.name = "nodes_from" => \A b \in Builders : Same(b)
       /\ call'.name \in BuildingCalls \cup {"reset"} =>
              /\ outs' = outs
              /\ \A i \in DOMAIN outs : \A n \in Held(i) : n \in DOMAIN heap' /\ heap'[n] = heap[n]]_vars

\* the caller has changed the nodes it was given; the builder has its graph
C9_Witness ==
    /\ call.name = "nodes_from" /\ heads[1] # <<>> /\ outs # <<>>
    /\ Last(outs).kind = "nodes"
    /\ Shape(heap, Last(outs).nodes) # Shape(heap, heads[1])

\* ------------------------------------------- properties of the builder methods
\* C13: in every state reached by add_node, add_sequence, grow_branches,
\* add_branch, join_branches, reset and merge_with from empty builders, no node
\* reachable from the heads of a builder is among its own ancestors, every
\* parent reference leads to a node, and every node has a parentless ancestor
\* or is parentless itself.
C13_Acyclic ==
    \A b \in Builders : \A n \in Reach(heap, heads[b]) :
        /\ Range(heap[n].nodes_from) \subseteq DOMAIN heap
        /\ n \notin Closure(heap, Range(heap[n].nodes_from))
        /\ Initial(heap, Closure(heap, {n})) # {}

\* the builder a merge returned was operated on and has a node with a grandparent
C13_Witness ==
    /\ m.kind = "builder" /\ m.b = New /\ m.later = 1
    /\ \E n \in Reach(heap, heads[New]) : \E x \in Range(heap[n].nodes_from) :
           heap[x].nodes_from # <<>>

\* the step creates node n with operation op and parents ps
Creates(n, op, ps) ==
    n \notin DOMAIN heap /\ heap'[n] = [op |-> op, nodes_from |-> ps]

\* C14: add_branch(ops, branch_idx) with at least one operation among ops:
\* when branch_idx is one of the head indices 0..len(heads)-1 the head H there
\* is removed and the k operations become k new nodes at positions
\* branch_idx..branch_idx+k-1, in argument order, each with H as its only
\* parent, the other heads keeping their order; for any other branch_idx, or
\* without heads, each operation is appended in order as a new parentless
\* head, the old heads staying as they were; without operations the heads
\* are unchanged.
C14_AddBranch ==
    [][call'.name = "add_branch" =>
        LET ops == FilterOps(call'.args.ops)
            k == Len(ops)
            idx == call'.args.idx
            old == heads[call'.b]
            new == heads'[call'.b]
        IN  IF k = 0 THEN new = old
            ELSE IF idx \in 0..(Len(old) - 1) THEN
                /\ Len(new) = Len(old) - 1 + k
                /\ SubSeq(new, 1, idx) = SubSeq(old, 1, idx)
                /\ SubSeq(new, idx + k + 1, Len(new)) = SubSeq(old, idx + 2, Len(old))
                /\ \A j \in 1..k : Creates(new[idx + j], ops[j], <<old[idx + 1]>>)
                /\ \A i, j \in 1..k : new[idx + i] = new[idx + j] => i = j
            ELSE
                /\ Len(new) = Len(old) + k
                /\ SubSeq(new, 1, Len(old)) = old
                /\ \A j \in 1..k : Creates(new[Len(old) + j], ops[j], <<>>)
                /\ \A i, j \in 1..k : new[Len(old) + i] = new[Len(old) + j] => i = j]_vars

\* C15: join_branches(op) on a builder with heads and with an operation
\* leaves exactly one head, a new node with operation op whose parents are
\* the previous heads in their order (one head included), the existing nodes
\* staying as they were; without heads or without an operation the heads are
\* unchanged.
C15_JoinBranches ==
    [][call'.name = "join_branches" =>
        LET op == call'.args.ops[1]
            old == heads[call'.b]
            new == heads'[call'.b]
        IN  IF old # <<>> /\ ~Falsy(op) THEN
                /\ Len(new) = 1
                /\ Creates(new[1], op, old)
                /\ \A n \in DOMAIN heap : n \in DOMAIN heap' /\ heap'[n] = heap[n]
            ELSE new = old /\ heap' = heap]_vars

\* two heads, one of them with a parent, were joined
C15_Witness ==
    /\ call.name = "join_branches" /\ "join" \in call.path
    /\ Len(heads[1]) = 1
    /\ Len(heap[heads[1][1]].nodes_from) = 2
    /\ heap[heads[1][1]].nodes_from[1] # heap[heads[1][1]].nodes_from[2]

\* the operations given for positions past the n-th, None and "" left out
Beyond(ops, n) == FilterOps(SubSeq(ops, n + 1, Len(ops)))

\* C16: grow_branches(op_0, .., op_{m-1}) on a builder with n heads: every
\* head i < n given an operation is replaced by a new node with that
\* operation whose only parent is the old head i; every head given None or
\* nothing stays; every operation at a position i >= n becomes one new
\* parentless head, appended in argument order; the number of heads becomes n
\* plus the number of operations at positions >= n.
C16_GrowBranches ==
    [][call'.name = "grow_branches" =>
        LET ops == call'.args.ops
            old == heads[call'.b]
            new == heads'[call'.b]
            n == Len(old)
            extra == Beyond(ops, n)
        IN  /\ Len(new) = n + Len(extra)
            /\ \A i \in 1..n :
                   IF i <= Len(ops) /\ ~Falsy(ops[i]) THEN Creates(new[i], ops[i], <<old[i]>>)
                   ELSE new[i] = old[i]
            /\ \A j \in 1..Len(extra) : Creates(new[n + j], extra[j], <<>>)
            /\ \A i, j \in DOMAIN new : new[i] = new[j] => i = j]_vars

\* one head was grown and a second branch was opened by the same call
C16_Witness ==
    /\ call.name = "grow_branches" /\ call.path = {"replace", "append"}
    /\ Len(heads[1]) = 2
    /\ Len(heap[heads[1][1]].nodes_from) = 1
    /\ heap[heads[1][2]].nodes_from = <<>>

\* node tip ends a chain of new nodes with the operations ops, in their order,
\* each the only child of the one before, the first one with the parents base
RECURSIVE ChainOn(_, _, _)
ChainOn(tip, ops, base) ==
    /\ tip \notin DOMAIN heap
    /\ heap'[tip].op = ops[Len(ops)]
    /\ IF Len(ops) = 1 THEN heap'[tip].nodes_from = base
       ELSE /\ Len(heap'[tip].nodes_from) = 1
            /\ ChainOn(heap'[tip].nodes_from[1], SubSeq(ops, 1, Len(ops) - 1), base)

\* C17: add_sequence(ops, branch_idx), for every branch_idx and every state
\* of the builder, puts all the operations among ops on one branch: they
\* become one chain of new nodes, each the only parent of the next, whose
\* last node is one head; when branch_idx is one of the head indices
\* 0..len(heads)-1 the chain starts on the old head there and takes its
\* place, otherwise it starts with one new parentless node and is appended
\* as one new head.  The other heads stay as they were.
C17_AddSequence ==
    [][call'.name = "add_sequence" =>
        LET ops == FilterOps(call'.args.ops)
            idx == call'.args.idx
            old == heads[call'.b]
            new == heads'[call'.b]
        IN  IF ops = <<>> THEN new = old
            ELSE IF idx \in 0..(Len(old) - 1) THEN
                /\ Len(new) = Len(old)
                /\ \A i \in DOMAIN old : i # idx + 1 => new[i] = old[i]
                /\ ChainOn(new[idx + 1], ops, <<old[idx + 1]>>)
            ELSE
                /\ Len(new) = Len(old) + 1
                /\ SubSeq(new, 1, Len(old)) = old
                /\ ChainOn(new[Len(new)], ops, <<>>)]_vars

\* ------------------------------------------------ properties of descriptive ids
\* the one-to-one correspondences between the positions of two lists
Matchings(s, t) == Injections(DOMAIN s, DOMAIN t)

\* x and y have the same operation and, in some order, parents that are alike
\* in the same way: the trees of ancestors under x and under y are the same
\* up to the order of parents
RECURSIVE Alike(_, _, _)
Alike(h, x, y) ==
    /\ h[x].op = h[y].op
    /\ Len(h[x].nodes_from) = Len(h[y].nodes_from)
    /\ \E g \in Matchings(h[x].nodes_from, h[y].nodes_from) :
           \A i \in DOMAIN h[x].nodes_from :
               Alike(h, h[x].nodes_from[i], h[y].nodes_from[g[i]])

\* the graphs under x and under y are the same up to the order of parents:
\* a one-to-one correspondence of their nodes takes x to y and keeps the
\* operations and the parents
SameGraph(h, x, y) ==
    LET X == Closure(h, {x})
        Y == Closure(h, {y})
    IN  /\ Cardinality(X) = Cardinality(Y)
        /\ \E g \in Injections(X, Y) :
               /\ g[x] = y
               /\ \A n \in X :
                      /\ h[g[n]].op = h[n].op
                      /\ Len(h[g[n]].nodes_from) = Len(h[n].nodes_from)
                      /\ \E q \in Matchings(h[n].nodes_from, h[g[n]].nodes_from) :
                             \A i \in DOMAIN h[n].nodes_from :
                                 g[h[n].nodes_from[i]] = h[g[n]].nodes_from[q[i]]

\* C18: the descriptive id a node is read to have equals that of another node
\* exactly when the graphs under the two nodes are the same up to the order
\* of parents; so a node whose graph has a node with two children and a node
\* whose graph has two nodes with the same operation in its place, one per
\* child, have different ids.
C18_IdIffSameGraph ==
    call.name = "descriptive_id" =>
        \A y \in DOMAIN heap :
            (descriptive_id(heap, y) = out.value) <=> SameGraph(heap, out.node, y)

\* C18, as the id is built: the id of a node equals that of another node
\* exactly when the two have the same operation and, up to order, parents
\* with equal ids, that is, when the trees of ancestors under them are the
\* same up to the order of parents.  A node that several nodes have as parent
\* counts once per child: the id does not tell it from as many nodes with
\* the same operation and ancestors.  Nodes whose graphs are the same up to
\* the order of parents have equal ids.
C18_IdIffSameTree ==
    call.name = "descriptive_id" =>
        \A y \in DOMAIN heap :
            /\ (descriptive_id(heap, y) = out.value) <=> Alike(heap, out.node, y)
            /\ SameGraph(heap, out.node, y) => descriptive_id(heap, y) = out.value

\* the id was read of a node of two parents with different ids, and another
\* node has the same parents in the other order
C18_Witness ==
    /\ call.name = "descriptive_id"
    /\ Len(heap[out.node].nodes_from) = 2
    /\ LET ps == heap[out.node].nodes_from
       IN  /\ descriptive_id(heap, ps[1]) # descriptive_id(heap, ps[2])
           /\ \E y \in DOMAIN heap : heap[y] = [heap[out.node] EXCEPT !.nodes_from = <<ps[2], ps[1]>>]
                                      /\ y # out.node

\* ------------------------------------------------------ properties of chains
\* the nodes of a chain in every order they can have been added in
Orders(nodes) == {c \in [DOMAIN nodes -> Range(nodes)] : Range(c) = Range(nodes)}

Afresh(h) == Visit(h, <<>>, Train, FALSE, TRUE)

\* C12: whatever fits, changes of parent lists and clear() calls came before,
\* no node ever holds more than one cached state; after a fit every node
\* under the root holds one state, under its current descriptive id, and it
\* is the state a fit of the present graph computes, which is also what the
\* output is made with, never a state fitted for other parents (so too after
\* the parents of a node were changed, its cache cleared and the chain fitted
\* again); and a fit with use_cache right after a fit returns the same
\* output and leaves the same cached states.
C12_CacheCorrect ==
    [][/\ \A x \in DOMAIN cache' : Cardinality(cache'[x]) <= 1
       /\ call'.name = "fit" =>
              /\ \A x \in Closure(heap, {out'.node}) :
                     CacheOf(cache', x) = {[id |-> descriptive_id(heap, x),
                                           state |-> StateAt(Afresh(heap), x)]}
              /\ out'.value = OutputAt(Afresh(heap), out'.node)
              /\ (call.name = "fit" /\ "use_cache" \in call'.path) =>
                     out' = out /\ cache' = cache]_vars

\* the parents of a node were changed for others, its cache was cleared and
\* the chain was fitted again with use_cache, other nodes having kept theirs
C12_Witness ==
    /\ call.name = "fit" /\ call.path = {"use_cache", "changed"}
    /\ Cardinality(DOMAIN cache) >= 2

\* C19: after fit on a chain with nodes, with use_cache or without, every
\* node under the root (the root too) holds a cached state under its current
\* descriptive id; predict leaves the cache of every node as it was.
C19_FitStoresPredictReads ==
    [][/\ call'.name = "fit" =>
              /\ chain # <<>>
              /\ \A x \in Closure(heap', {out'.node}) :
                     Get(CacheOf(cache', x), descriptive_id(heap', x)) # {}
       /\ call'.name = "predict" => cache' = cache /\ heap' = heap]_vars

\* predict was called on a fitted chain of a root with two parents
C19_Witness ==
    /\ call.name = "predict"
    /\ Len(heap[out.node].nodes_from) = 2
    /\ Cardinality(DOMAIN cache) = Len(chain)

\* the paths of k nodes that lead from a parentless node to r, parent by parent
PathsTo(h, r, k) ==
    {p \in [1..k -> Closure(h, {r})] :
        /\ p[k] = r
        /\ h[p[1]].nodes_from = <<>>
        /\ \A i \in 1..(k - 1) : p[i] \in Range(h[p[i + 1]].nodes_from)}

\* r ends a chain of four nodes, each the only parent of the next
IsLine(h, r) ==
    /\ Cardinality(Closure(h, {r})) = 4
    /\ \A x \in Closure(h, {r}) : Len(h[x].nodes_from) <= 1

\* r has two parents, which have one parent each, the same parentless node
IsDiamond(h, r) ==
    /\ Cardinality(Closure(h, {r})) = 4
    /\ Len(h[r].nodes_from) = 2
    /\ h[r].nodes_from[1] # h[r].nodes_from[2]
    /\ \E s \in DOMAIN h :
           /\ h[s].nodes_from = <<>>
           /\ \A i \in 1..2 : h[h[r].nodes_from[i]].nodes_from = <<s>>

\* C20: the length of a chain with one root is the number of distinct nodes
\* under the root (the root too, a node with several children counted once),
\* and its depth the number of nodes of a longest path from a parentless node
\* to the root; four nodes in a line have length 4 and depth 4, a diamond of
\* four nodes length 4 and depth 3.
C20_Metrics ==
    out.kind = "metrics" =>
        LET r == out.node
            nodes == Closure(heap, {r})
        IN  /\ out.value.length = Cardinality(nodes)
            /\ PathsTo(heap, r, out.value.depth) # {}
            /\ \A k \in (out.value.depth + 1)..Cardinality(nodes) : PathsTo(heap, r, k) = {}
            /\ IsLine(heap, r) => out.value = [length |-> 4, depth |-> 4]
            /\ IsDiamond(heap, r) => out.value = [length |-> 4, depth |-> 3]

\* the length and depth of a diamond were read
C20_Witness == out.kind = "metrics" /\ IsDiamond(heap, out.node)

\* C21: add_node, add_sequence, grow_branches, add_branch and join_branches
\* only add: every node that existed before the call is still there with the
\* same operation and the same parent list, and every node reachable from the
\* heads before the call is reachable from the heads after it -- also when
\* the heads were given to the constructor.
C21_AdditionOnly ==
    [][call'.name \in BuildingCalls =>
           /\ \A n \in DOMAIN heap : n \in DOMAIN heap' /\ heap'[n] = heap[n]
           /\ Reach(heap, heads[call'.b]) \subseteq Reach(heap', heads'[call'.b])]_vars

\* add_branch has replaced a head that the caller gave to the constructor by
\* two branches built on it
C21_Witness ==
    /\ call.name = "add_branch" /\ "branch" \in call.path
    /\ outs # <<>>
    /\ \E i, j \in DOMAIN heads[1] :
           /\ i # j
           /\ heap[heads[1][i]].nodes_from = heap[heads[1][j]].nodes_from
           /\ Len(heap[heads[1][i]].nodes_from) = 1
           /\ heap[heads[1][i]].nodes_from[1] \in Range(outs[1].nodes)

\* the heads hd are distinct nodes, none of them a parent of a node reachable
\* from the heads, and the roots of the pipeline to_pipeline() makes of them are
\* their copies, in their order
HeadsAreRoots(h, hd, a) ==
    /\ \A i, j \in DOMAIN hd : hd[i] = hd[j] => i = j
    /\ \A n \in Reach(h, hd) : \A i \in DOMAIN hd : hd[i] \notin Range(h[n].nodes_from)
    /\ hd # <<>> =>
           LET g == ToPipeline(h, hd, a)
           IN  Shape(g.heap, RootNodes([heap |-> g.heap, nodes |-> g.nodes])) = Shape(h, hd)

\* C22 as stated: in every state of builders driven from empty by the building
\* methods, reset and merge_with, the heads of every builder are exactly the
\* roots of its graph, and the builder merge_with returns has as many heads as
\* the following builder.
C22_HeadsAreRootsMergedAsFollowing ==
    /\ [](\A b \in Builders : HeadsAreRoots(heap, heads[b], ResultArena(outs)))
    /\ [][\A p, f \in Builders : (IsMerge(p, f) /\ ret'.kind = "builder") =>
              Len(heads'[ret'.b]) = Len(heads[f])]_vars

\* C22, amended: the heads of every builder are exactly the roots of its
\* graph, and the builder merge_with returns has as many heads as the
\* following builder unless following is empty: then it is previous, with the
\* heads of previous.
C22_HeadsAreRoots ==
    /\ [](\A b \in Builders : HeadsAreRoots(heap, heads[b], ResultArena(outs)))
    /\ [][\A p, f \in Builders : (IsMerge(p, f) /\ ret'.kind = "builder") =>
              IF heads[f] = <<>> THEN ret'.b = p /\ heads'[p] = heads[p]
              ELSE Len(heads'[ret'.b]) = Len(heads[f])]_vars

\* a builder of one head was merged with one of two heads on a common parent:
\* the merged builder has two heads, on three nodes below them
C22_Witness ==
    /\ call.name = "merge_with" /\ m.kind = "builder" /\ m.b = New
    /\ Len(heads[m.p]) = 1 /\ Len(heads[m.f]) = 2
    /\ Len(heads[New]) = 2
    /\ Cardinality(Reach(heap, heads[New])) >= 4

\* previous was merged with an empty following and came back itself
C22_WitnessEmpty ==
    /\ call.name = "merge_with" /\ m.kind = "builder" /\ m.b = m.p
    /\ heads[m.f] = <<>> /\ heads[m.p] # <<>>

====
